---- MODULE Spec2Model ----
(***************************************************************************)
(* Model of the VideoPlayer component of src/video-player.tsx.             *)
(*                                                                         *)
(* One mounted widget instance bound to one expo-video player (the         *)
(* "adapter").  The JavaScript event loop runs one callback at a time, so  *)
(* every action below is one callback (a press handler, the 500ms interval *)
(* callback, the auto-hide timeout callback, the statusChange listener)    *)
(* together with the React re-render and the effects that the callback's   *)
(* state updates cause.  A state of the model is a state between two       *)
(* callbacks: the variables hold the values of the last render.            *)
(*                                                                         *)
(* Times of the media (currentTime, duration) are exact rationals: a       *)
(* value v of the model stands for v / BarWidth milliseconds, so that      *)
(* (touchX / progressBarWidth) * duration is computed without rounding.    *)
(* Wall-clock times (the timers) are in milliseconds.                      *)
(***************************************************************************)
EXTENDS Integers, FiniteSets, Sequences, TLC

(***************************************************************************)
(* Program constants.                                                      *)
(***************************************************************************)
PollInterval == 500        \* setInterval(updateProgress, 500)
HideDelay == 3000          \* setTimeout(..., 3000)
SeekThresholdMs == 100     \* Math.abs(delta) < 0.1 (seconds)
BarPadding == 32           \* progressBarWidth = width - 32
Rates == {50, 75, 100, 125, 150, 200}   \* [0.5, 0.75, 1, 1.25, 1.5, 2], in percent
DefaultRate == 100         \* player.playbackRate = 1.0 / useState(1.0)

(***************************************************************************)
(* Bounds of the model.                                                    *)
(***************************************************************************)
ScreenWidth == 34          \* Dimensions.get('window').width
MaxDurSteps == 2           \* media durations are 0..MaxDurSteps times 100ms
MaxCount == 2              \* the counting observers saturate here

BarWidth == ScreenWidth - BarPadding
Ms(x) == x * BarWidth                \* x milliseconds as a media time
SeekThreshold == Ms(SeekThresholdMs)

Min(a, b) == IF a < b THEN a ELSE b
Max(a, b) == IF a > b THEN a ELSE b
Abs(a) == IF a < 0 THEN -a ELSE a

Durations == {Ms(k * SeekThresholdMs) : k \in 0..MaxDurSteps}
\* the positions the adapter reports while it plays: every 50ms
AdapterTimes == {Ms(k * (SeekThresholdMs \div 2)) : k \in 0..(2 * MaxDurSteps)}
StartPositions == {0, Ms(SeekThresholdMs \div 2)}
Statuses == {"idle", "loading", "readyToPlay", "error"}
TouchXs == (0 - 1)..(BarWidth + 1)
SeekOutcomes == {"ok", "lag", "throws"}

VARIABLES
    \* view state (useState)
    isPlaying, currentTime, duration, showControls, playbackRate,
    showSettings, isLoading, isDragging,
    \* refs (useRef)
    controlsTimeoutRef, progressIntervalRef, hasSetInitialPosition,
    \* the adapter: [currentTime, duration, playing, muted, playbackRate, status]
    player,
    \* props of this mount: [autoPlay, startPosition, onVideoEnd, onProgress]
    props,
    \* the JavaScript timers: handle -> milliseconds until it is due
    timeouts, intervals,
    \* the statusChange subscription, and whether the component is mounted
    subscribed, mounted,
    \* what the environment does in this behaviour (never changes): the
    \* durations, positions and statuses the adapter takes, the touches, rates
    \* and seekBy outcomes that occur, the step of the wall clock, and the
    \* observers that are recorded
    env,
    \* observers: what the last step called, and counts over the mount
    calls, req, endCalls, initialPositionSets, autoPlayCalls,
    lastGesture, sinceInput, lateCallback

view == <<isPlaying, currentTime, duration, showControls, playbackRate,
          showSettings, isLoading, isDragging>>
refs == <<controlsTimeoutRef, progressIntervalRef, hasSetInitialPosition>>
observers == <<calls, req, endCalls, initialPositionSets, autoPlayCalls,
               lastGesture, sinceInput, lateCallback>>
vars == <<view, refs, player, props, timeouts, intervals, subscribed, mounted,
          env, observers>>

NoReq == [kind |-> "none"]

\* the arguments of onProgress, the normalized progress as the fraction
\* time / duration; called is FALSE when it was not invoked
NoReport == [called |-> FALSE, time |-> 0, duration |-> 0]

(***************************************************************************)
(* The part of the state that a callback and the effects after it change,  *)
(* as one record, so that the handlers compose as functions on it.         *)
(***************************************************************************)
Snapshot ==
    [isPlaying |-> isPlaying, currentTime |-> currentTime, duration |-> duration,
     showControls |-> showControls, playbackRate |-> playbackRate,
     showSettings |-> showSettings, isLoading |-> isLoading,
     isDragging |-> isDragging, controlsTimeoutRef |-> controlsTimeoutRef,
     hasSetInitialPosition |-> hasSetInitialPosition, player |-> player,
     timeouts |-> timeouts, calls |-> {}, sets |-> 0, autoPlays |-> 0,
     report |-> NoReport]

Bump(n, k) == Min(n + k, MaxCount)

(***************************************************************************)
(* JavaScript timers.  A handle is a positive number, 0 stands for null.   *)
(* A fresh handle is one of no pending timer; every call of setTimeout and *)
(* setInterval in the component stores its handle in the ref at once, so   *)
(* the handle of a timer that is gone may be named again.                  *)
(***************************************************************************)
Without(f, h) == [i \in DOMAIN f \ {h} |-> f[i]]
With(f, h, ms) == [i \in DOMAIN f \cup {h} |-> IF i = h THEN ms ELSE f[i]]
FreshHandle(f) == CHOOSE h \in 1..(Cardinality(DOMAIN f) + 1) :
                      h \notin DOMAIN f /\ \A g \in 1..(h - 1) : g \in DOMAIN f

\* if (controlsTimeoutRef.current) clearTimeout(controlsTimeoutRef.current)
ClearControlsTimeout(s) ==
    IF s.controlsTimeoutRef # 0
    THEN [s EXCEPT !.timeouts = Without(@, s.controlsTimeoutRef)]
    ELSE s

\* controlsTimeoutRef.current = setTimeout(() => setShowControls(false), 3000)
ArmControlsTimeout(s) ==
    LET h == FreshHandle(s.timeouts)
    IN [s EXCEPT !.timeouts = With(@, h, HideDelay), !.controlsTimeoutRef = h]

\* a faulty variant: a new timer is armed without clearing the stored one
resetControlsTimeoutNoClear(s, closureIsPlaying) ==
    LET shown == [s EXCEPT !.showControls = TRUE]
    IN IF closureIsPlaying THEN ArmControlsTimeout(shown) ELSE shown

\* resetControlsTimeout, as created by the render in which isPlaying had the
\* value closureIsPlaying (useCallback(..., [isPlaying]))
resetControlsTimeout(s, closureIsPlaying) ==
    LET cleared == [ClearControlsTimeout(s) EXCEPT !.showControls = TRUE]
    IN IF closureIsPlaying THEN ArmControlsTimeout(cleared) ELSE cleared

(***************************************************************************)
(* The adapter's commands.  The adapter keeps 0 <= currentTime <= duration.*)
(***************************************************************************)
AdapterClamp(p, t) == Max(0, Min(t, p.duration))
PlayerPlay(s, who) == [s EXCEPT !.player.playing = TRUE, !.calls = @ \cup {who}]
PlayerPause(s) == [s EXCEPT !.player.playing = FALSE, !.calls = @ \cup {"pause"}]
PlayerSetCurrentTime(s, t) ==
    [s EXCEPT !.player.currentTime = AdapterClamp(s.player, t),
              !.calls = @ \cup {"setCurrentTime"}]

(***************************************************************************)
(* The effects of the component, in the order of their declaration.        *)
(***************************************************************************)
\* a faulty variant: the latch is never set
InitialPositionEffectNoLatch(s) ==
    IF ~s.hasSetInitialPosition /\ s.duration > 0 /\ ~s.isLoading
    THEN [PlayerSetCurrentTime(s, IF props.startPosition > 0
                                  THEN props.startPosition ELSE 0)
             EXCEPT !.calls = @ \cup {"initialPosition"},
                    !.sets = @ + 1]
    ELSE s

\* useEffect(..., [startPosition, player, duration, isLoading])
InitialPositionEffect(s) ==
    IF ~s.hasSetInitialPosition /\ s.duration > 0 /\ ~s.isLoading
    THEN [PlayerSetCurrentTime(s, IF props.startPosition > 0
                                  THEN props.startPosition ELSE 0)
             EXCEPT !.hasSetInitialPosition = TRUE,
                    !.calls = @ \cup {"initialPosition"},
                    !.sets = @ + 1]
    ELSE s

\* useEffect(..., [autoPlay, isLoading])
AutoPlayEffect(s) ==
    IF props.autoPlay /\ ~s.isLoading
    THEN [PlayerPlay(s, "autoPlay") EXCEPT !.isPlaying = TRUE, !.autoPlays = @ + 1]
    ELSE s

\* a faulty variant: the effect shows the controls and arms no timer
AutoHideEffectNoTimer(s, renderedIsPlaying) ==
    IF renderedIsPlaying THEN resetControlsTimeout(s, FALSE) ELSE s

\* useEffect(..., [isPlaying, resetControlsTimeout]): its body
AutoHideEffect(s, renderedIsPlaying) ==
    IF renderedIsPlaying THEN resetControlsTimeout(s, renderedIsPlaying) ELSE s

\* a faulty variant: the cleanup leaves the timer pending
AutoHideCleanupNone(s) == s

\* its cleanup
AutoHideCleanup(s) == ClearControlsTimeout(s)

(***************************************************************************)
(* One commit: rendered is the state of the previous render, s the state   *)
(* that is rendered now.  React runs the cleanups of the effects whose     *)
(* dependencies changed, then their bodies.                                *)
(***************************************************************************)
RunEffects(rendered, s) ==
    LET playingChanged == rendered.isPlaying # s.isPlaying
        loadingChanged == rendered.isLoading # s.isLoading
        durationChanged == rendered.duration # s.duration
        a == IF playingChanged THEN AutoHideCleanup(s) ELSE s
        b == IF durationChanged \/ loadingChanged THEN InitialPositionEffect(a) ELSE a
        c == IF loadingChanged THEN AutoPlayEffect(b) ELSE b
    IN IF playingChanged THEN AutoHideEffect(c, s.isPlaying) ELSE c

\* A state update made by an effect (setIsPlaying in the autoplay effect,
\* setShowControls in the auto-hide effect) causes one more render.
Commit(rendered, s) ==
    LET first == RunEffects(rendered, s)
    IN RunEffects(s, first)

(***************************************************************************)
(* seekToPosition(position): position is the numerator of a fraction of    *)
(* BarWidth.  outcome is what the adapter does with seekBy: "ok" (the      *)
(* position has moved when the call returns), "lag" (the call returns      *)
(* before the engine has moved) or "throws".                               *)
(***************************************************************************)
\* a faulty variant: the position is not clamped
ClampedPositionUnclamped(position) == position

ClampedPosition(position) == Max(0, Min(position, BarWidth))
TargetTime(position, viewDuration) ==
    (ClampedPosition(position) * viewDuration) \div BarWidth

\* a faulty variant: a failure of seekBy is swallowed, with no fallback
PlayerSeekByNoFallback(s, delta, targetTime, outcome) ==
    LET called == [s EXCEPT !.calls = @ \cup {"seekBy"}]
    IN IF outcome = "ok"
       THEN [called EXCEPT !.player.currentTime =
                               AdapterClamp(s.player, s.player.currentTime + delta)]
       ELSE called

PlayerSeekBy(s, delta, targetTime, outcome) ==
    LET called == [s EXCEPT !.calls = @ \cup {"seekBy"}]
    IN CASE outcome = "ok" ->
              [called EXCEPT !.player.currentTime =
                                 AdapterClamp(s.player, s.player.currentTime + delta)]
         [] outcome = "lag" -> called
         [] OTHER -> PlayerSetCurrentTime(called, targetTime)   \* catch { ... }

\* a faulty variant: no dead zone: every seek is forwarded to the adapter
seekToPositionNoThreshold(s, position, closureDuration, outcome) ==
    IF closureDuration <= 0 THEN s
    ELSE LET targetTime == TargetTime(position, closureDuration)
             delta == targetTime - s.player.currentTime
         IN [PlayerSeekBy(s, delta, targetTime, outcome)
                EXCEPT !.currentTime = targetTime]

seekToPosition(s, position, closureDuration, outcome) ==
    IF closureDuration <= 0 THEN s
    ELSE LET targetTime == TargetTime(position, closureDuration)
             delta == targetTime - s.player.currentTime
         IN IF Abs(delta) < SeekThreshold
            THEN [s EXCEPT !.currentTime = targetTime]
            ELSE [PlayerSeekBy(s, delta, targetTime, outcome)
                     EXCEPT !.currentTime = targetTime]

\* handleProgressBarTouch / the first half of handleProgressBarTap
handleProgressBarTouch(s, touchX, closureDuration, outcome) ==
    IF closureDuration <= 0 THEN s
    ELSE LET progressBarWidth == ScreenWidth - BarPadding
             clampedTouchX == Max(0, Min(touchX, progressBarWidth))
         IN seekToPosition(s, clampedTouchX, closureDuration, outcome)

(***************************************************************************)
(* The press handlers, as functions on the snapshot.                       *)
(***************************************************************************)
togglePlayPause(s) ==
    LET toggled == IF s.player.playing
                   THEN [PlayerPause(s) EXCEPT !.isPlaying = FALSE]
                   ELSE [PlayerPlay(s, "play") EXCEPT !.isPlaying = TRUE]
    IN resetControlsTimeout(toggled, s.isPlaying)

toggleMute(s) == [s EXCEPT !.player.muted = ~@]

toggleSettings(s) == [s EXCEPT !.showSettings = ~@]

\* a faulty variant: the view's rate is not updated
changePlaybackRateAdapterOnly(s, rate) ==
    [s EXCEPT !.player.playbackRate = rate, !.showSettings = FALSE]

changePlaybackRate(s, rate) ==
    [s EXCEPT !.player.playbackRate = rate, !.playbackRate = rate,
              !.showSettings = FALSE]

handleProgressBarTap(s, touchX, outcome) ==
    IF s.duration <= 0 THEN s
    ELSE resetControlsTimeout(
             handleProgressBarTouch(s, touchX, s.duration, outcome), s.isPlaying)

\* a faulty variant: hiding the controls leaves the timer pending
handleVideoPressKeepsTimer(s) ==
    IF s.showControls
    THEN [s EXCEPT !.showControls = FALSE]
    ELSE resetControlsTimeout(s, s.isPlaying)

\* a faulty variant: showing the controls arms no countdown
handleVideoPressNoCountdown(s) ==
    IF s.showControls
    THEN ClearControlsTimeout([s EXCEPT !.showControls = FALSE])
    ELSE resetControlsTimeout(s, FALSE)

handleVideoPress(s) ==
    IF s.showControls
    THEN ClearControlsTimeout([s EXCEPT !.showControls = FALSE])
    ELSE resetControlsTimeout(s, s.isPlaying)

\* The PanResponder is created once (useRef(PanResponder.create(...)).current):
\* its handlers are those of the first render, in which duration and isPlaying
\* have their initial values.
FirstRenderDuration == 0
FirstRenderIsPlaying == FALSE

onPanResponderGrant(s, touchX, outcome) ==
    handleProgressBarTouch(
        ClearControlsTimeout([s EXCEPT !.isDragging = TRUE]),
        touchX, FirstRenderDuration, outcome)

onPanResponderMove(s, touchX, outcome) ==
    handleProgressBarTouch(s, touchX, FirstRenderDuration, outcome)

onPanResponderRelease(s, touchX, outcome) ==
    resetControlsTimeout(
        [handleProgressBarTouch(s, touchX, FirstRenderDuration, outcome)
            EXCEPT !.isDragging = FALSE],
        FirstRenderIsPlaying)

(***************************************************************************)
(* The timer and listener callbacks.                                       *)
(***************************************************************************)
AtEnd(p) == p.currentTime >= p.duration /\ p.duration > 0

\* a faulty variant: onProgress is invoked only when the position has changed
updateProgressOnChange(s) ==
    LET read == [s EXCEPT !.currentTime = s.player.currentTime,
                          !.duration = s.player.duration,
                          !.isPlaying = s.player.playing]
        ended == IF AtEnd(s.player) /\ props.onVideoEnd
                 THEN [read EXCEPT !.calls = @ \cup {"onVideoEnd"}] ELSE read
    IN IF props.onProgress /\ s.player.duration > 0
          /\ s.player.currentTime # s.currentTime
       THEN [ended EXCEPT !.calls = @ \cup {"onProgress"},
                          !.report = [called |-> TRUE,
                                      time |-> s.player.currentTime,
                                      duration |-> s.player.duration]]
       ELSE ended

updateProgress(s) ==
    LET read == [s EXCEPT !.currentTime = s.player.currentTime,
                          !.duration = s.player.duration,
                          !.isPlaying = s.player.playing]
        ended == IF AtEnd(s.player) /\ props.onVideoEnd
                 THEN [read EXCEPT !.calls = @ \cup {"onVideoEnd"}] ELSE read
    IN IF props.onProgress /\ s.player.duration > 0
       THEN [ended EXCEPT !.calls = @ \cup {"onProgress"},
                          !.report = [called |-> TRUE,
                                      time |-> s.player.currentTime,
                                      duration |-> s.player.duration]]
       ELSE ended

statusChangeListener(s, status) ==
    LET loading == [s EXCEPT !.isLoading = (status = "loading")]
    IN IF status = "readyToPlay"
       THEN [loading EXCEPT !.duration = s.player.duration, !.isLoading = FALSE]
       ELSE loading

hideControls(s) == [s EXCEPT !.showControls = FALSE]

(***************************************************************************)
(* Observers.                                                              *)
(*   calls: the adapter commands and caller callbacks of the last step.    *)
(*   req: the seek or rate request of the last step, if it made one; after *)
(*   the unmount, what was pending when it happened.                       *)
(*   endCalls: onVideoEnd invocations since the adapter reached the end.   *)
(*   lastGesture, sinceInput: "start" when the view began to play and no   *)
(*   input followed, "control" when the last input was a gesture on the    *)
(*   controls made while the view was playing, and the milliseconds since. *)
(*   lateCallback: a callback of the component ran after the unmount.      *)
(***************************************************************************)
ControlGestures == {"playPause", "mute", "settings", "rate", "tap",
                    "panGrant", "panMove", "panRelease"}
ClockCap == HideDelay + PollInterval
Watched(o) == o \in env.watch

GestureAfter(s, gesture) ==
    CASE ~Watched("gesture") \/ ~s.isPlaying -> "none"
      [] ~isPlaying -> "start"
      [] gesture \in ControlGestures -> "control"
      [] gesture = "videoPress" -> "none"
      [] OTHER -> lastGesture

\* After the unmount React drops the state updates of a callback that still
\* runs: nothing is rendered and no effect runs.
Dropped(s) ==
    [s EXCEPT !.isPlaying = isPlaying, !.currentTime = currentTime,
              !.duration = duration, !.showControls = showControls,
              !.playbackRate = playbackRate, !.showSettings = showSettings,
              !.isLoading = isLoading, !.isDragging = isDragging]

\* the new state after a callback that turned the snapshot into s
Finish(s, gesture, request) ==
    LET done == IF mounted THEN Commit(Snapshot, s) ELSE Dropped(s)
    IN /\ lateCallback' = (lateCallback \/ ~mounted)
       /\ isPlaying' = done.isPlaying
       /\ currentTime' = done.currentTime
       /\ duration' = done.duration
       /\ showControls' = done.showControls
       /\ playbackRate' = done.playbackRate
       /\ showSettings' = done.showSettings
       /\ isLoading' = done.isLoading
       /\ isDragging' = done.isDragging
       /\ controlsTimeoutRef' = done.controlsTimeoutRef
       /\ hasSetInitialPosition' = done.hasSetInitialPosition
       /\ player' = done.player
       /\ timeouts' = done.timeouts
       /\ calls' = IF Watched("calls") THEN done.calls ELSE {}
       /\ req' = IF Watched("req") THEN request ELSE NoReq
       /\ initialPositionSets' = IF Watched("counts")
                                 THEN Bump(initialPositionSets, done.sets) ELSE 0
       /\ autoPlayCalls' = IF Watched("counts")
                           THEN Bump(autoPlayCalls, done.autoPlays) ELSE 0
       /\ endCalls' = IF Watched("end") /\ AtEnd(done.player)
                      THEN Bump(endCalls, IF "onVideoEnd" \in done.calls THEN 1 ELSE 0)
                      ELSE 0
       /\ lastGesture' = GestureAfter(done, gesture)
       /\ sinceInput' = IF gesture = "" /\ GestureAfter(done, gesture) = lastGesture
                        THEN sinceInput ELSE 0

SeekRequest(position, outcome) ==
    [kind |-> "seek", position |-> position, before |-> player.currentTime,
     duration |-> duration, outcome |-> outcome]

\* what a reconciliation tick met: the adapter's position and duration, the
\* position the view showed, whether the step before it was a seek whose
\* seekBy has not moved the adapter yet, and what was reported to onProgress
TickRequest ==
    IF Watched("tick")
    THEN [kind |-> "tick", time |-> player.currentTime,
          duration |-> player.duration, shown |-> currentTime,
          pending |-> (/\ req.kind = "seek"
                       /\ req.outcome = "lag"
                       /\ "seekBy" \in calls
                       /\ player.currentTime = req.before),
          report |-> updateProgress(Snapshot).report]
    ELSE NoReq

\* a sample of a drag: its phase, the touch, and the view it met
PanRequest(phase, touchX) ==
    IF Watched("pan")
    THEN [kind |-> "pan", phase |-> phase, touchX |-> touchX,
          duration |-> duration, playing |-> isPlaying]
    ELSE NoReq

\* a tap on the video surface, and whether it met visible controls
PressRequest ==
    IF Watched("press")
    THEN [kind |-> "videoPress", visible |-> showControls]
    ELSE NoReq

ControlsRendered == mounted /\ showControls /\ ~isLoading

(***************************************************************************)
(* User input.                                                             *)
(***************************************************************************)
TogglePlayPause ==
    /\ ControlsRendered
    /\ Finish(togglePlayPause(Snapshot), "playPause", NoReq)
    /\ UNCHANGED <<progressIntervalRef, props, intervals, subscribed, mounted, env>>

ToggleMute ==
    /\ ControlsRendered
    /\ Finish(toggleMute(Snapshot), "mute", NoReq)
    /\ UNCHANGED <<progressIntervalRef, props, intervals, subscribed, mounted, env>>

ToggleSettings ==
    /\ ControlsRendered
    /\ Finish(toggleSettings(Snapshot), "settings", NoReq)
    /\ UNCHANGED <<progressIntervalRef, props, intervals, subscribed, mounted, env>>

ChangePlaybackRate ==
    /\ ControlsRendered /\ showSettings
    /\ \E rate \in env.rates :
           Finish(changePlaybackRate(Snapshot, rate), "rate",
                  [kind |-> "rate", rate |-> rate])
    /\ UNCHANGED <<progressIntervalRef, props, intervals, subscribed, mounted, env>>

ProgressBarTap ==
    /\ ControlsRendered
    /\ \E touchX \in env.touchXs, outcome \in env.outcomes :
           Finish(handleProgressBarTap(Snapshot, touchX, outcome), "tap",
                  IF duration > 0
                  THEN SeekRequest(ClampedPosition(touchX), outcome) ELSE NoReq)
    /\ UNCHANGED <<progressIntervalRef, props, intervals, subscribed, mounted, env>>

\* seekToPosition called with any position, also one outside [0, 1] (the
\* handlers of the component pass clamped positions only)
SeekCall ==
    /\ mounted
    /\ \E position \in env.touchXs, outcome \in env.outcomes :
           Finish(seekToPosition(Snapshot, position, duration, outcome), "",
                  IF duration > 0 THEN SeekRequest(position, outcome) ELSE NoReq)
    /\ UNCHANGED <<progressIntervalRef, props, intervals, subscribed, mounted, env>>

PanGrant ==
    /\ ControlsRendered
    /\ \E touchX \in env.touchXs, outcome \in env.outcomes :
           Finish(onPanResponderGrant(Snapshot, touchX, outcome), "panGrant",
                  PanRequest("grant", touchX))
    /\ UNCHANGED <<progressIntervalRef, props, intervals, subscribed, mounted, env>>

PanMove ==
    /\ ControlsRendered /\ isDragging
    /\ \E touchX \in env.touchXs, outcome \in env.outcomes :
           Finish(onPanResponderMove(Snapshot, touchX, outcome), "panMove",
                  PanRequest("move", touchX))
    /\ UNCHANGED <<progressIntervalRef, props, intervals, subscribed, mounted, env>>

PanRelease ==
    /\ ControlsRendered /\ isDragging
    /\ \E touchX \in env.touchXs, outcome \in env.outcomes :
           Finish(onPanResponderRelease(Snapshot, touchX, outcome), "panRelease",
                  PanRequest("release", touchX))
    /\ UNCHANGED <<progressIntervalRef, props, intervals, subscribed, mounted, env>>

VideoPress ==
    /\ mounted
    /\ Finish(handleVideoPress(Snapshot), "videoPress", PressRequest)
    /\ UNCHANGED <<progressIntervalRef, props, intervals, subscribed, mounted, env>>

(***************************************************************************)
(* Timers.                                                                 *)
(***************************************************************************)
\* the interval callback runs and the interval starts over
IntervalFires ==
    /\ \E h \in DOMAIN intervals :
          /\ intervals[h] = 0
          /\ intervals' = [intervals EXCEPT ![h] = PollInterval]
    /\ Finish(updateProgress(Snapshot), "", TickRequest)
    /\ UNCHANGED <<progressIntervalRef, props, subscribed, mounted, env>>

\* the auto-hide timeout callback runs
TimeoutFires ==
    /\ \E h \in DOMAIN timeouts :
          /\ timeouts[h] = 0
          /\ Finish([hideControls(Snapshot) EXCEPT !.timeouts = Without(@, h)],
                    "", NoReq)
    /\ UNCHANGED <<progressIntervalRef, props, intervals, subscribed, mounted, env>>

\* the wall clock advances by env.step; a timer that is due runs first
Advance ==
    /\ DOMAIN timeouts \cup DOMAIN intervals # {}
    /\ \A h \in DOMAIN timeouts : timeouts[h] >= env.step
    /\ \A h \in DOMAIN intervals : intervals[h] >= env.step
    /\ timeouts' = [h \in DOMAIN timeouts |-> timeouts[h] - env.step]
    /\ intervals' = [h \in DOMAIN intervals |-> intervals[h] - env.step]
    /\ sinceInput' = IF lastGesture = "none" THEN 0
                     ELSE Min(sinceInput + env.step, ClockCap)
    /\ calls' = {}
    /\ req' = NoReq
    /\ UNCHANGED <<view, refs, player, props, subscribed, mounted, env, endCalls,
                   initialPositionSets, autoPlayCalls, lastGesture, lateCallback>>

(***************************************************************************)
(* The adapter (external): its state changes on its own, and it notifies   *)
(* the statusChange listener while the listener is subscribed.             *)
(***************************************************************************)
AdapterStep(p) ==
    /\ player' = p
    /\ calls' = {}
    /\ req' = NoReq
    /\ endCalls' = IF AtEnd(p) THEN endCalls ELSE 0
    /\ UNCHANGED <<view, refs, props, timeouts, intervals, subscribed, mounted, env,
                   initialPositionSets, autoPlayCalls, lastGesture, sinceInput,
                   lateCallback>>

\* playback or a seek moves the position; playback stops at the end (loop = false)
AdapterTimeChange ==
    /\ mounted
    /\ \E t \in env.times :
          /\ t # player.currentTime /\ t <= player.duration
          /\ AdapterStep([player EXCEPT !.currentTime = t,
                                        !.playing = IF t >= player.duration
                                                    THEN FALSE ELSE @])

AdapterDurationChange ==
    /\ mounted
    /\ \E d \in env.durations \ {player.duration} :
          AdapterStep([player EXCEPT !.duration = d,
                                     !.currentTime = Min(@, d)])

\* the engine stalls, or playback is stopped or resumed from outside the widget
AdapterPlayingChange ==
    /\ mounted
    /\ AdapterStep([player EXCEPT !.playing = ~@])

\* (after the unmount the player is released: a notification matters only
\* if the listener is still subscribed)
StatusChange ==
    /\ mounted \/ subscribed
    /\ \E status \in env.statuses \ {player.status} :
        LET emitted == [Snapshot EXCEPT !.player.status = status]
        IN Finish(IF subscribed THEN statusChangeListener(emitted, status)
                  ELSE emitted, "", NoReq)
    /\ UNCHANGED <<progressIntervalRef, props, intervals, subscribed, mounted, env>>

(***************************************************************************)
(* The parent.                                                             *)
(***************************************************************************)
\* clearInterval(progressIntervalRef.current)
IntervalCleanup(f) ==
    IF progressIntervalRef # 0 THEN Without(f, progressIntervalRef) ELSE f

\* A re-render with new onVideoEnd / onProgress functions: the interval
\* effect (deps [player, onVideoEnd, onProgress]) is cleaned up and run again.
CallbacksChange ==
    /\ mounted
    /\ LET cleared == IntervalCleanup(intervals)
           h == FreshHandle(cleared)
       IN /\ intervals' = With(cleared, h, PollInterval)
          /\ progressIntervalRef' = h
    /\ calls' = {}
    /\ req' = NoReq
    /\ UNCHANGED <<view, controlsTimeoutRef, hasSetInitialPosition, player, props,
                   timeouts, subscribed, mounted, env, endCalls, initialPositionSets,
                   autoPlayCalls, lastGesture, sinceInput, lateCallback>>

\* the useState defaults
InitialView ==
    <<FALSE, 0, 0, TRUE, DefaultRate, FALSE, TRUE, FALSE>>

\* a faulty variant: the auto-hide effect has no cleanup
UnmountCleanupLeavesTimeout ==
    /\ intervals' = IntervalCleanup(intervals)
    /\ subscribed' = FALSE
    /\ timeouts' = timeouts

\* the cleanups of the three effects that have one
UnmountCleanup ==
    /\ intervals' = IntervalCleanup(intervals)
    /\ subscribed' = FALSE
    /\ timeouts' = AutoHideCleanup(Snapshot).timeouts

\* React discards the state of the instance (the model keeps the useState
\* defaults in its place)
Unmount ==
    /\ mounted
    /\ mounted' = FALSE
    /\ UnmountCleanup
    /\ isPlaying' = InitialView[1]
    /\ currentTime' = InitialView[2]
    /\ duration' = InitialView[3]
    /\ showControls' = InitialView[4]
    /\ playbackRate' = InitialView[5]
    /\ showSettings' = InitialView[6]
    /\ isLoading' = InitialView[7]
    /\ isDragging' = InitialView[8]
    /\ calls' = {}
    /\ req' = IF Watched("req")
              THEN [kind |-> "unmount", isDragging |-> isDragging,
                    timerPending |-> controlsTimeoutRef \in DOMAIN timeouts]
              ELSE NoReq
    /\ lastGesture' = "none"
    /\ sinceInput' = 0
    /\ UNCHANGED <<refs, player, props, env, endCalls, initialPositionSets,
                   autoPlayCalls, lateCallback>>

(***************************************************************************)
(* The state after the first render and its effects.                       *)
(***************************************************************************)
MountProps == [autoPlay : BOOLEAN, startPosition : StartPositions,
               onVideoEnd : {TRUE}, onProgress : {TRUE}]

Observers == {"calls", "req", "counts", "end", "gesture", "tick", "pan", "press"}

\* everything the environment can do
EnvAll ==
    [durations |-> Durations, times |-> AdapterTimes, statuses |-> Statuses,
     touchXs |-> TouchXs, outcomes |-> SeekOutcomes, rates |-> Rates,
     step |-> PollInterval \div 2, props |-> MountProps, watch |-> Observers]

InitIn(e) ==
    /\ env = e
    /\ isPlaying = InitialView[1]
    /\ currentTime = InitialView[2]
    /\ duration = InitialView[3]
    /\ showControls = InitialView[4]
    /\ playbackRate = InitialView[5]
    /\ showSettings = InitialView[6]
    /\ isLoading = InitialView[7]
    /\ isDragging = InitialView[8]
    /\ controlsTimeoutRef = 0
    /\ hasSetInitialPosition = FALSE
    /\ player = [currentTime |-> 0, duration |-> 0, playing |-> FALSE,
                 muted |-> FALSE, playbackRate |-> DefaultRate, status |-> "idle"]
    /\ props \in e.props
    /\ timeouts = <<>>
    /\ intervals = With(<<>>, 1, PollInterval)
    /\ progressIntervalRef = 1
    /\ subscribed = TRUE
    /\ mounted = TRUE
    /\ calls = {}
    /\ req = NoReq
    /\ endCalls = 0
    /\ initialPositionSets = 0
    /\ autoPlayCalls = 0
    /\ lastGesture = "none"
    /\ sinceInput = 0
    /\ lateCallback = FALSE

Next ==
    \/ TogglePlayPause
    \/ ToggleMute
    \/ ToggleSettings
    \/ ChangePlaybackRate
    \/ ProgressBarTap
    \/ PanGrant
    \/ PanMove
    \/ PanRelease
    \/ VideoPress
    \/ IntervalFires
    \/ TimeoutFires
    \/ Advance
    \/ AdapterTimeChange
    \/ AdapterDurationChange
    \/ AdapterPlayingChange
    \/ StatusChange
    \/ CallbacksChange
    \/ Unmount

\* Everything at once.  Its state space is too large to enumerate; the
\* specifications below restrict the environment to what a group of
\* properties depends on, and are the ones that are checked.
SpecAll == InitIn(EnvAll) /\ [][Next]_vars

(***************************************************************************)
(* Playback lifecycle: the reconciliation tick, the status notifications,  *)
(* the initial position and autoplay.  The menu and the drag, which touch  *)
(* none of these, are left to the specifications below.                    *)
(***************************************************************************)
EnvLifecycle ==
    [durations |-> {0, Ms(SeekThresholdMs)}, times |-> {0, Ms(SeekThresholdMs)},
     statuses |-> Statuses, touchXs |-> {0}, outcomes |-> {"ok"},
     rates |-> {DefaultRate}, step |-> PollInterval, props |-> MountProps,
     watch |-> {"calls", "end", "counts"}]

NextLifecycle ==
    \/ TogglePlayPause
    \/ ProgressBarTap
    \/ VideoPress
    \/ IntervalFires
    \/ TimeoutFires
    \/ Advance
    \/ AdapterTimeChange
    \/ AdapterDurationChange
    \/ AdapterPlayingChange
    \/ StatusChange
    \/ CallbacksChange
    \/ Unmount

Spec == InitIn(EnvLifecycle) /\ [][NextLifecycle]_vars

(***************************************************************************)
(* The control overlay and its auto-hide timer.  SpecControls has the      *)
(* gestures that reach the timer, with a wall clock of a quarter of a      *)
(* second; SpecGestures adds the menu (mute, settings, rate), with a clock *)
(* of half a second.                                                       *)
(***************************************************************************)
EnvControls ==
    [durations |-> {0, Ms(SeekThresholdMs)}, times |-> {0},
     statuses |-> {"loading", "readyToPlay"}, touchXs |-> {0},
     outcomes |-> {"ok"}, rates |-> {DefaultRate}, step |-> PollInterval \div 2,
     props |-> {m \in MountProps : m.startPosition = 0},
     watch |-> {"gesture", "req"}]

NextControls ==
    \/ TogglePlayPause
    \/ ProgressBarTap
    \/ PanGrant
    \/ PanMove
    \/ PanRelease
    \/ VideoPress
    \/ IntervalFires
    \/ TimeoutFires
    \/ Advance
    \/ AdapterDurationChange
    \/ AdapterPlayingChange
    \/ StatusChange
    \/ CallbacksChange
    \/ Unmount

SpecControls == InitIn(EnvControls) /\ [][NextControls]_vars

EnvGestures ==
    [EnvControls EXCEPT !.props = {m \in @ : ~m.autoPlay}, !.step = PollInterval]

NextGestures ==
    \/ ToggleMute
    \/ ToggleSettings
    \/ ChangePlaybackRate
    \/ NextControls

SpecGestures == InitIn(EnvGestures) /\ [][NextGestures]_vars

(***************************************************************************)
(* Seeking: every touch, seekBy outcome, duration and adapter position,    *)
(* with a paused view (the seek reads nothing of the auto-hide timer).     *)
(***************************************************************************)
EnvSeek ==
    [durations |-> Durations, times |-> AdapterTimes,
     statuses |-> {"loading", "readyToPlay"}, touchXs |-> TouchXs,
     outcomes |-> SeekOutcomes, rates |-> {DefaultRate}, step |-> PollInterval,
     props |-> {m \in MountProps : m.startPosition = 0 /\ ~m.autoPlay},
     watch |-> {"calls", "req"}]

NextSeek ==
    \/ SeekCall
    \/ ProgressBarTap
    \/ PanGrant
    \/ PanMove
    \/ PanRelease
    \/ IntervalFires
    \/ Advance
    \/ AdapterTimeChange
    \/ AdapterDurationChange
    \/ StatusChange

SpecSeek == InitIn(EnvSeek) /\ [][NextSeek]_vars

(***************************************************************************)
(* The settings menu, with every rate of the menu.                         *)
(***************************************************************************)
EnvRate ==
    [durations |-> {0}, times |-> {0}, statuses |-> {"loading", "readyToPlay"},
     touchXs |-> {0}, outcomes |-> {"ok"}, rates |-> Rates, step |-> PollInterval,
     props |-> {m \in MountProps : m.startPosition = 0 /\ ~m.autoPlay},
     watch |-> {"req"}]

NextRate ==
    \/ ToggleSettings
    \/ ChangePlaybackRate
    \/ ToggleMute
    \/ TogglePlayPause
    \/ VideoPress
    \/ IntervalFires
    \/ TimeoutFires
    \/ Advance
    \/ AdapterPlayingChange
    \/ StatusChange
    \/ Unmount

SpecRate == InitIn(EnvRate) /\ [][NextRate]_vars

(***************************************************************************)
(* C1: onVideoEnd is edge-triggered: while the adapter stays at the end of *)
(* the media (currentTime >= duration > 0) the reconciliation ticks invoke *)
(* it once, not once per tick.                                             *)
(***************************************************************************)
C1_EndSignalledOnce == endCalls <= 1

(***************************************************************************)
(* C2: within one mount the adapter's currentTime is assigned the start    *)
(* offset at most once, and only in a render with duration > 0 and         *)
(* isLoading false; the value assigned is startPosition (or 0).            *)
(***************************************************************************)
C2_InitialPositionOnce ==
    /\ initialPositionSets <= 1
    /\ hasSetInitialPosition <=> (initialPositionSets = 1)
    /\ "initialPosition" \in calls =>
          /\ duration > 0 /\ ~isLoading
          /\ player.currentTime = AdapterClamp(player, props.startPosition)

\* the offset was applied earlier in this mount, the adapter has moved on,
\* and a later ready render has not applied it again
C2_Witness ==
    /\ initialPositionSets = 1
    /\ "initialPosition" \notin calls
    /\ props.startPosition > 0
    /\ duration > 0 /\ ~isLoading /\ player.status = "readyToPlay"
    /\ player.currentTime # props.startPosition
    /\ mounted

(***************************************************************************)
(* C3: with autoPlay the autoplay logic issues play() once in a mount: a   *)
(* readyToPlay notification makes it issue play() the first time loading   *)
(* completes only, not when the adapter goes through loading ->            *)
(* readyToPlay again.                                                      *)
(***************************************************************************)
C3_AutoPlayOnce ==
    ("autoPlay" \in calls /\ player.status = "readyToPlay") => autoPlayCalls <= 1

(***************************************************************************)
(* C4: autoplay issues play() only when the adapter's most recent status   *)
(* is readyToPlay.                                                         *)
(***************************************************************************)
C4_AutoPlayOnlyWhenReady == "autoPlay" \in calls => player.status = "readyToPlay"

(***************************************************************************)
(* C5: when the view starts to play and no user input follows, the         *)
(* controls stay visible for 3000ms and are hidden from then on: the       *)
(* auto-hide timer is due exactly 3000ms after the start.                  *)
(***************************************************************************)
C5_HiddenAfterHideDelay ==
    (mounted /\ lastGesture = "start") =>
        /\ sinceInput < HideDelay => showControls
        /\ sinceInput < HideDelay =>
              \E h \in DOMAIN timeouts : timeouts[h] = HideDelay - sinceInput
        /\ sinceInput = HideDelay =>
              ~showControls \/ \E h \in DOMAIN timeouts : timeouts[h] = 0
        /\ sinceInput > HideDelay => ~showControls

\* the timer has just hidden the controls, 3000ms after the start
C5_Witness ==
    /\ mounted /\ isPlaying /\ lastGesture = "start"
    /\ sinceInput = HideDelay /\ ~showControls

(***************************************************************************)
(* C6: while the view plays, a gesture on the controls restarts the        *)
(* countdown: the controls are not hidden before 3000ms have passed since  *)
(* the last such gesture.                                                  *)
(***************************************************************************)
C6_GestureResetsCountdown ==
    (mounted /\ lastGesture = "control" /\ sinceInput < HideDelay) => showControls

(***************************************************************************)
(* C7: after the unmount no timer of the component is pending, the status  *)
(* listener is unsubscribed, and no callback of the component runs.        *)
(***************************************************************************)
C7_NothingRunsAfterUnmount ==
    /\ ~lateCallback
    /\ ~mounted => (DOMAIN timeouts = {} /\ DOMAIN intervals = {} /\ ~subscribed)

\* unmounted during a drag, with an auto-hide timer pending
C7_Witness ==
    /\ ~mounted
    /\ req = [kind |-> "unmount", isDragging |-> TRUE, timerPending |-> TRUE]

(***************************************************************************)
(* C8: a seek request whose target, clamp(p, 0, 1) x view duration, is     *)
(* less than 0.1s from the adapter's currentTime calls neither seekBy nor  *)
(* the currentTime setter, and the view's currentTime becomes the target.  *)
(***************************************************************************)
ClaimedTarget ==
    LET p == IF req.position < 0 THEN 0
             ELSE IF req.position > BarWidth THEN BarWidth ELSE req.position
    IN (p * req.duration) \div BarWidth

C8_SmallDeltaSkipsAdapter ==
    (req.kind = "seek" /\ Abs(ClaimedTarget - req.before) < Ms(SeekThresholdMs)) =>
        /\ "seekBy" \notin calls
        /\ "setCurrentTime" \notin calls
        /\ player.currentTime = req.before
        /\ currentTime = ClaimedTarget

\* a seek 50ms away from the adapter's position: displayed, not forwarded
C8_Witness ==
    /\ req.kind = "seek"
    /\ ClaimedTarget # req.before
    /\ Abs(ClaimedTarget - req.before) < Ms(SeekThresholdMs)
    /\ currentTime = ClaimedTarget /\ player.currentTime = req.before

(***************************************************************************)
(* C9: after seekToPosition(p) with a known duration the displayed         *)
(* progress, currentTime / duration, is clamp(p, 0, 1), whether the        *)
(* adapter's seek was skipped, succeeded, lagged or failed.                *)
(***************************************************************************)
C9_ProgressIsClampedPosition ==
    req.kind = "seek" =>
        /\ duration = req.duration /\ duration > 0
        /\ currentTime * BarWidth =
              duration * (IF req.position < 0 THEN 0
                          ELSE IF req.position > BarWidth THEN BarWidth
                          ELSE req.position)

\* p > 1 and seekBy throws: the progress shown is 1
C9_Witness ==
    /\ req.kind = "seek" /\ req.position > BarWidth /\ req.outcome = "throws"
    /\ "setCurrentTime" \in calls
    /\ currentTime = duration /\ duration > 0

(***************************************************************************)
(* C10: selecting a rate sets the adapter's playbackRate and the view's    *)
(* selected rate to it and closes the settings menu; the view's selected   *)
(* rate always equals the adapter's playbackRate.                          *)
(***************************************************************************)
C10_RateMirrorsAdapter ==
    /\ mounted => playbackRate = player.playbackRate
    /\ req.kind = "rate" =>
          /\ player.playbackRate = req.rate
          /\ playbackRate = req.rate
          /\ ~showSettings

\* 1.5x has just been selected
C10_Witness ==
    /\ req = [kind |-> "rate", rate |-> 150]
    /\ player.playbackRate = 150 /\ playbackRate = 150 /\ ~showSettings

(***************************************************************************)
(* C11: when a seek of 0.1s or more is requested and seekBy throws, the    *)
(* handler still completes: seekBy was called, the adapter's currentTime   *)
(* was assigned the target (which the adapter keeps within its own         *)
(* duration), the view's currentTime is the target, and the rest of the    *)
(* view state is what it was before the request.                           *)
(***************************************************************************)
C11_SeekFailureFallsBack ==
    [][(/\ req'.kind = "seek"
        /\ req'.outcome = "throws"
        /\ Abs(TargetTime(req'.position, req'.duration) - req'.before)
               >= Ms(SeekThresholdMs))
       => /\ "seekBy" \in calls' /\ "setCurrentTime" \in calls'
          /\ player'.currentTime =
                 Min(TargetTime(req'.position, req'.duration), player'.duration)
          /\ currentTime' = TargetTime(req'.position, req'.duration)
          /\ mounted'
          /\ <<isPlaying, duration, showControls, playbackRate, showSettings,
               isLoading, isDragging>>' =
             <<isPlaying, duration, showControls, playbackRate, showSettings,
               isLoading, isDragging>>]_vars

\* seekBy threw on a seek inside the bar, 0.1s away: the adapter and the view
\* are both at the target
C11_Witness ==
    /\ req.kind = "seek" /\ req.outcome = "throws"
    /\ req.position \in 0..BarWidth
    /\ "seekBy" \in calls /\ "setCurrentTime" \in calls
    /\ player.currentTime # req.before
    /\ player.currentTime = currentTime

(***************************************************************************)
(* The reconciliation tick and the caller's callbacks, each of which may   *)
(* be registered or not.  Nothing seeks here: the view's currentTime is    *)
(* what the last tick read.                                                *)
(***************************************************************************)
CallbackProps == [autoPlay : {FALSE}, startPosition : {0},
                  onVideoEnd : BOOLEAN, onProgress : BOOLEAN]

EnvProgress ==
    [durations |-> {0, Ms(SeekThresholdMs)},
     times |-> {0, Ms(SeekThresholdMs \div 2), Ms(SeekThresholdMs)},
     statuses |-> {"loading", "readyToPlay"}, touchXs |-> {0},
     outcomes |-> {"ok"}, rates |-> {DefaultRate}, step |-> PollInterval,
     props |-> CallbackProps, watch |-> {"calls", "req", "tick"}]

NextProgress ==
    \/ TogglePlayPause
    \/ IntervalFires
    \/ Advance
    \/ AdapterTimeChange
    \/ AdapterDurationChange
    \/ AdapterPlayingChange
    \/ StatusChange
    \/ CallbacksChange
    \/ Unmount

SpecProgress == InitIn(EnvProgress) /\ [][NextProgress]_vars

(***************************************************************************)
(* C12: a reconciliation tick with a progress callback registered invokes  *)
(* onProgress if and only if the adapter's duration is positive, with the  *)
(* adapter's currentTime / duration and currentTime as arguments, whether  *)
(* or not the position has changed since the tick before; without a        *)
(* registered callback nothing is invoked.                                 *)
(***************************************************************************)
C12_ProgressEveryTick ==
    req.kind = "tick" =>
        /\ mounted
        /\ "onProgress" \in calls <=> (props.onProgress /\ req.duration > 0)
        /\ req.report.called <=> "onProgress" \in calls
        /\ req.report.called =>
              /\ req.report.time = req.time
              /\ req.report.duration = req.duration

\* a tick that met the position the tick before it had read, away from 0,
\* and reported it again
C12_Witness ==
    /\ req.kind = "tick" /\ req.report.called
    /\ req.shown = req.time /\ req.time > 0 /\ req.time < req.duration
    /\ "onProgress" \in calls

(***************************************************************************)
(* C13: an auto-hide timer is pending only while the view is playing and   *)
(* the controls are shown.                                                 *)
(***************************************************************************)
C13_TimerOnlyWhilePlayingAndVisible ==
    (mounted /\ DOMAIN timeouts # {}) => (isPlaying /\ showControls)

\* a countdown that a gesture on the controls restarted is under way
C13_Witness ==
    /\ mounted /\ isPlaying /\ showControls /\ lastGesture = "control"
    /\ controlsTimeoutRef \in DOMAIN timeouts
    /\ timeouts[controlsTimeoutRef] < HideDelay
    /\ timeouts[controlsTimeoutRef] = HideDelay - sinceInput

(***************************************************************************)
(* The overlay with every sample of a drag and every tap on the video      *)
(* surface recorded.                                                       *)
(***************************************************************************)
EnvOverlay ==
    [durations |-> {0, Ms(SeekThresholdMs)}, times |-> {0},
     statuses |-> {"loading", "readyToPlay"}, touchXs |-> {0, BarWidth},
     outcomes |-> {"ok"}, rates |-> {DefaultRate}, step |-> PollInterval,
     props |-> {m \in MountProps : m.startPosition = 0 /\ ~m.autoPlay},
     watch |-> {"req", "pan", "press"}]

NextOverlay ==
    \/ TogglePlayPause
    \/ ProgressBarTap
    \/ PanGrant
    \/ PanMove
    \/ PanRelease
    \/ VideoPress
    \/ IntervalFires
    \/ TimeoutFires
    \/ Advance
    \/ AdapterDurationChange
    \/ AdapterPlayingChange
    \/ StatusChange

SpecOverlay == InitIn(EnvOverlay) /\ [][NextOverlay]_vars

(***************************************************************************)
(* C14: with the duration known, the start, every move and the release of  *)
(* a drag seek to the touch: after each of them the displayed progress,    *)
(* currentTime / duration, is clamp(touchX, 0, barWidth) / barWidth.       *)
(***************************************************************************)
C14_DragSeeksToTouch ==
    (req.kind = "pan" /\ req.duration > 0) =>
        /\ duration = req.duration
        /\ currentTime * BarWidth = duration * Max(0, Min(req.touchX, BarWidth))

(***************************************************************************)
(* C15: the release of a drag made while the view plays clears the         *)
(* dragging flag and arms the auto-hide timer for 3000ms.                  *)
(***************************************************************************)
C15_ReleaseRestartsCountdown ==
    (req.kind = "pan" /\ req.phase = "release" /\ req.playing) =>
        /\ ~isDragging
        /\ showControls
        /\ controlsTimeoutRef \in DOMAIN timeouts
        /\ timeouts[controlsTimeoutRef] = HideDelay

(***************************************************************************)
(* C16: the pause press leaves the view paused with the controls shown and *)
(* no auto-hide timer pending, and no timer is pending at any time while   *)
(* the view is paused, so none can hide the controls before play resumes.  *)
(***************************************************************************)
C16_PauseStopsCountdown ==
    /\ "pause" \in calls =>
          (mounted /\ ~isPlaying /\ showControls /\ DOMAIN timeouts = {})
    /\ (mounted /\ ~isPlaying) => \A h \in DOMAIN timeouts : FALSE

\* just paused by the press, after a timer had been armed in this mount
C16_Witness ==
    /\ mounted /\ "pause" \in calls /\ ~isPlaying /\ ~player.playing
    /\ showControls /\ DOMAIN timeouts = {} /\ controlsTimeoutRef # 0

(***************************************************************************)
(* C17: a tap on the video surface that meets shown controls hides them    *)
(* and leaves no timer pending; one that meets hidden controls shows them, *)
(* with one timer of 3000ms if the view is playing and none if it is not.  *)
(***************************************************************************)
C17_VideoPressToggles ==
    req.kind = "videoPress" =>
        IF req.visible
        THEN ~showControls /\ DOMAIN timeouts = {}
        ELSE /\ showControls
             /\ isPlaying => /\ DOMAIN timeouts = {controlsTimeoutRef}
                             /\ timeouts[controlsTimeoutRef] = HideDelay
             /\ ~isPlaying => DOMAIN timeouts = {}

\* hidden controls brought back by a tap during playback
C17_Witness ==
    /\ req = [kind |-> "videoPress", visible |-> FALSE]
    /\ isPlaying /\ showControls
    /\ DOMAIN timeouts = {controlsTimeoutRef}
    /\ timeouts[controlsTimeoutRef] = HideDelay

(***************************************************************************)
(* C18: with an adapter that keeps 0 <= currentTime <= duration, the       *)
(* view's currentTime is within [0, duration] whenever the view's duration *)
(* is positive.                                                            *)
(***************************************************************************)
C18_TimeWithinDuration ==
    (/\ mounted
     /\ duration > 0
     /\ player.currentTime >= 0 /\ player.currentTime <= player.duration)
    => (currentTime >= 0 /\ currentTime <= duration)

(***************************************************************************)
(* Seeking, with what every reconciliation tick met recorded.              *)
(***************************************************************************)
EnvLag == [EnvSeek EXCEPT !.watch = @ \cup {"tick"}]

SpecLag == InitIn(EnvLag) /\ [][NextSeek]_vars

(***************************************************************************)
(* C19: a reconciliation tick that runs after a seek, while the adapter    *)
(* still reports the position it had before the seek, leaves the view's    *)
(* currentTime at the target of the seek.                                  *)
(***************************************************************************)
C19_TickKeepsRequestedPosition ==
    (req.kind = "tick" /\ req.pending) => currentTime = req.shown

(***************************************************************************)
(* C20: at most one auto-hide timer and at most one reconciliation         *)
(* interval are pending, and the handle of each is the one stored in its   *)
(* ref.                                                                    *)
(***************************************************************************)
C20_OneTimerEach ==
    /\ DOMAIN timeouts \subseteq {controlsTimeoutRef}
    /\ DOMAIN intervals \subseteq {progressIntervalRef}
    /\ Cardinality(DOMAIN timeouts) <= 1
    /\ Cardinality(DOMAIN intervals) <= 1
    /\ mounted => DOMAIN intervals = {progressIntervalRef}

\* a gesture during playback has just replaced the pending timer
C20_Witness ==
    /\ mounted /\ isPlaying /\ lastGesture = "control" /\ sinceInput = 0
    /\ DOMAIN timeouts = {controlsTimeoutRef}
    /\ timeouts[controlsTimeoutRef] = HideDelay
====
